---- MODULE Spec2Model ----
(***************************************************************************)
(* Order-payment lifecycle of the perfume-store API (src/main.py,          *)
(* src/schemas.py): create_order, verify_payment, update_order_status over *)
(* the "order" collection, with the Razorpay credentials read at start-up. *)
(*                                                                         *)
(* Strings are TLA+ strings; Optional[str] None is the value Null.         *)
(* A document of the "order" collection is kept as the two fields the      *)
(* handlers read or write (status, razorpay_order_id); its _id is its      *)
(* position in the collection.  The remaining fields of an Order are       *)
(* stored as received and no handler touches them.                         *)
(***************************************************************************)
EXTENDS Integers, Sequences, FiniteSets, TLC

\* ------------------------------------------------------------------ bounds
MaxOrders == 2

\* ------------------------------------------------------- values and inputs
Null == "<None>"

\* schemas.py Order.status: the Literal the schema admits; "pending" by default
Statuses == {"pending", "paid", "processing", "shipped", "delivered", "cancelled"}
DefaultStatus == "pending"

\* the statuses the modelled checkout requests carry: the default, and two a
\* client can put in the payload instead
PayloadStatuses == {DefaultStatus, "paid", "shipped"}

\* the statuses the modelled administrative requests carry (the field is a
\* plain str; these stand for the rest)
AdminStatuses == {"pending", "paid", "shipped", "cancelled"}

\* values the environment can give the two credentials ("" when unset)
KeyIds == {"", "rzp_key"}
KeySecrets == {"", "s3cr3t"}

IntentIds == {"order_A", "order_B"}
PaymentIds == {"pay_X"}

\* total_amount in thousandths of a rupee (10999 is 10.999).  The values are
\* ones for which int() and round() of the double product total_amount * 100
\* are those of the exact product (49.99, 1550.00, 10.999).
Scale == 1000
TotalAmounts == {49990, 1550000, 10999}

\* ------------------------------------------------------------ pure helpers
\* hmac.new(key, msg, sha256).hexdigest(): a collision-free MAC, rendered as
\* a string that names its key and message.
HmacSha256Hex(key, msg) == "hmac-sha256(" \o key \o ";" \o msg \o ")"

GeneratedSignatureSwapped(secret, order_id, payment_id) ==
    HmacSha256Hex(secret, payment_id \o "|" \o order_id)

\* verify_payment: generated_signature
GeneratedSignature(secret, order_id, payment_id) ==
    HmacSha256Hex(secret, order_id \o "|" \o payment_id)

NotConfiguredBoth(key_id, key_secret) == key_id = "" /\ key_secret = ""

\* create_order: not RAZORPAY_KEY_ID or not RAZORPAY_KEY_SECRET
NotConfigured(key_id, key_secret) == key_id = "" \/ key_secret = ""

VerifySkippedOnKeyId(key_id, key_secret) == key_id = ""

\* verify_payment: not RAZORPAY_KEY_SECRET
VerifySkipped(key_id, key_secret) == key_secret = ""

\* create_order: int(order.total_amount * 100), truncation toward zero of a
\* non-negative product
AmountPaise(total_amount) == (total_amount * 100) \div Scale

\* create_order: r.status_code >= 300
GatewayRejected(status_code) == status_code >= 300

\* except Exception as e: raise HTTPException(status_code=500, detail=str(e))
\* around an HTTPException raised inside the try: str(e) is "<code>: <detail>"
WrappedDetail(code, detail) == code \o ": " \o detail

\* database.create_document(collection, data): the document is inserted as
\* received and the new _id is returned
create_document(coll, doc) == Append(coll, doc)
InsertedId(coll) == Len(coll)

UpdateEvery(coll, matching, status) ==
    IF matching = {} THEN {coll}
    ELSE {[i \in 1..Len(coll) |-> [coll[i] EXCEPT !.status = status]]}

\* collection.update_one(filter, {"$set": {"status": status}}): one of the
\* documents the filter matches is updated, none when none matches
UpdateOne(coll, matching, status) ==
    IF matching = {} THEN {coll}
    ELSE {[coll EXCEPT ![i].status = status] : i \in matching}

ByIntent(coll, intent) == {i \in 1..Len(coll) : coll[i].razorpay_order_id = intent}
ById(coll, id) == {i \in 1..Len(coll) : i = id}

\* ------------------------------------------------------------------- state
VARIABLES
    keyId,      \* RAZORPAY_KEY_ID
    keySecret,  \* RAZORPAY_KEY_SECRET
    orders,     \* db["order"]
    last,       \* the most recent call and its response
    pc,         \* where each of two concurrent verify_payment calls stands
    raceReq,    \* the body the two concurrent calls carry
    resp,       \* what each of them returned
    atStart     \* db["order"] when the two calls arrived

vars == <<keyId, keySecret, orders, last, pc, raceReq, resp, atStart>>
raceVars == <<pc, raceReq, resp, atStart>>

\* the threads that run the two concurrent calls
Workers == {"w1", "w2"}

NoReq == [intent |-> "", payment |-> "", signature |-> ""]

NoCall == [op |-> "none", code |-> 0, result |-> "", detail |-> "",
           order_id |-> 0, razorpay_order_id |-> Null, amount |-> -1,
           called |-> FALSE, total |-> -1, gw_status |-> 0, gw_id |-> Null,
           req |-> NoReq, again |-> FALSE]

Init ==
    /\ keyId \in KeyIds
    /\ keySecret \in KeySecrets
    /\ orders = <<>>
    /\ last = NoCall
    /\ pc = [w \in Workers |-> "idle"]
    /\ raceReq = NoReq
    /\ resp = [w \in Workers |-> ""]
    /\ atStart = <<>>

\* No concurrent pair is in flight.  The handlers below are then taken one
\* call at a time (each makes at most one access to the collection); while a
\* pair is in flight only its two calls run.
Serial == \A w \in Workers : pc[w] = "idle"

\* ---------------------------------------------------------------- requests
\* a schema-valid Order as far as the handlers are concerned
OrderPayloads ==
    [status : PayloadStatuses, razorpay_order_id : IntentIds \cup {Null},
     total_amount : TotalAmounts]

Doc(order) == [status |-> order.status, razorpay_order_id |-> order.razorpay_order_id]

\* what the gateway can answer to POST /v1/orders, or the call raising
GatewayAnswers ==
    [kind : {"response"}, status_code : {200}, id : IntentIds \cup {Null}, text : {""}]
    \cup [kind : {"response"}, status_code : {300, 500}, id : {Null}, text : {"gw_error"}]
    \cup [kind : {"raised"}, status_code : {0}, id : {Null}, text : {"timeout"}]

\* signatures a caller can supply: the digest under the deployment's secret
\* for either intent id, a digest under another key, or nothing
SuppliedSignatures ==
    {HmacSha256Hex(k, a \o "|" \o b) :
        k \in {"s3cr3t"}, a \in IntentIds, b \in PaymentIds}
    \cup {HmacSha256Hex("guess", "order_A|pay_X"), ""}

VerifyBodies ==
    [intent : IntentIds, payment : PaymentIds, signature : SuppliedSignatures]

\* ---------------------------------------------------------------- handlers
\* POST /api/orders
CreateOrder ==
    \E order \in OrderPayloads, dbOk \in BOOLEAN :
      /\ Serial
      /\ Len(orders) < MaxOrders
      /\ UNCHANGED raceVars
      /\ IF NotConfigured(keyId, keySecret)
         THEN
            /\ UNCHANGED <<keyId, keySecret>>
            /\ IF dbOk
               THEN /\ orders' = create_document(orders, Doc(order))
                    /\ last' = [NoCall EXCEPT !.op = "create", !.code = 200,
                                  !.result = "not_configured",
                                  !.order_id = InsertedId(orders')]
               ELSE /\ orders' = orders
                    /\ last' = [NoCall EXCEPT !.op = "create", !.code = 500,
                                  !.detail = "storage"]
         ELSE
            \E answer \in GatewayAnswers :
              LET amount_paise == AmountPaise(order.total_amount)
                  sent == [NoCall EXCEPT !.op = "create", !.called = TRUE,
                              !.total = order.total_amount, !.amount = amount_paise,
                              !.gw_status = answer.status_code, !.gw_id = answer.id]
              IN
              /\ UNCHANGED <<keyId, keySecret>>
              /\ IF answer.kind = "raised"
                 THEN /\ orders' = orders
                      /\ last' = [sent EXCEPT !.code = 500, !.detail = answer.text]
                 ELSE IF GatewayRejected(answer.status_code)
                 THEN /\ orders' = orders
                      /\ last' = [sent EXCEPT !.code = 500,
                                     !.detail = WrappedDetail("502", answer.text)]
                 ELSE IF dbOk
                 THEN /\ orders' = create_document(orders,
                                      [Doc(order) EXCEPT !.razorpay_order_id = answer.id])
                      /\ last' = [sent EXCEPT !.code = 200, !.result = "created",
                                     !.order_id = InsertedId(orders'),
                                     !.razorpay_order_id = answer.id]
                 ELSE /\ orders' = orders
                      /\ last' = [sent EXCEPT !.code = 500, !.detail = "storage"]

\* POST /api/orders/verify
VerifyPayment ==
    \E body \in VerifyBodies, dbOk \in BOOLEAN :
      LET call == [NoCall EXCEPT !.op = "verify", !.req = body,
                      !.again = (last.op = "verify" /\ last.req = body
                                    /\ last.result = "success")]
      IN
      /\ Serial
      /\ UNCHANGED <<keyId, keySecret>>
      /\ UNCHANGED raceVars
      /\ IF VerifySkipped(keyId, keySecret)
         THEN /\ orders' = orders
              /\ last' = [call EXCEPT !.code = 200, !.result = "skipped"]
         ELSE IF GeneratedSignature(keySecret, body.intent, body.payment) = body.signature
         THEN IF dbOk
              THEN /\ orders' \in UpdateOne(orders, ByIntent(orders, body.intent), "paid")
                   /\ last' = [call EXCEPT !.code = 200, !.result = "success"]
              ELSE /\ orders' = orders
                   /\ last' = [call EXCEPT !.code = 500, !.detail = "storage"]
         ELSE /\ orders' = orders
              /\ last' = [call EXCEPT !.code = 500,
                             !.detail = WrappedDetail("400", "Invalid signature")]

\* PATCH /api/orders/{order_id}/status; order_id 0 is a string ObjectId rejects
UpdateOrderStatus ==
    \E order_id \in 0..MaxOrders, status \in AdminStatuses, dbOk \in BOOLEAN :
      /\ Serial
      /\ UNCHANGED <<keyId, keySecret>>
      /\ UNCHANGED raceVars
      /\ IF order_id = 0
         THEN /\ orders' = orders
              /\ last' = [NoCall EXCEPT !.op = "update", !.code = 500,
                             !.detail = "InvalidId"]
         ELSE IF dbOk
         THEN /\ orders' \in UpdateOne(orders, ById(orders, order_id), status)
              /\ last' = [NoCall EXCEPT !.op = "update", !.code = 200,
                             !.result = "updated"]
         ELSE /\ orders' = orders
              /\ last' = [NoCall EXCEPT !.op = "update", !.code = 500,
                             !.detail = "storage"]

\* ------------------------------------- two concurrent verify_payment calls
\* Two requests with the same body, signed by the gateway, arrive together;
\* each is run by its own worker thread, and their steps interleave.
StartRace ==
    \E intent \in IntentIds, payment \in PaymentIds :
      /\ Serial
      /\ raceReq' = [intent |-> intent, payment |-> payment,
                     signature |-> HmacSha256Hex(keySecret, intent \o "|" \o payment)]
      /\ pc' = [w \in Workers |-> "check"]
      /\ resp' = [w \in Workers |-> ""]
      /\ atStart' = orders
      /\ last' = [NoCall EXCEPT !.op = "race", !.req = raceReq']
      /\ UNCHANGED <<keyId, keySecret, orders>>

\* verify_payment up to the comparison of the two signatures
VerifyCheck(w) ==
    /\ pc[w] = "check"
    /\ IF VerifySkipped(keyId, keySecret)
       THEN /\ pc' = [pc EXCEPT ![w] = "done"]
            /\ resp' = [resp EXCEPT ![w] = "skipped"]
       ELSE IF GeneratedSignature(keySecret, raceReq.intent, raceReq.payment)
                  = raceReq.signature
       THEN /\ pc' = [pc EXCEPT ![w] = "update"]
            /\ resp' = resp
       ELSE /\ pc' = [pc EXCEPT ![w] = "done"]
            /\ resp' = [resp EXCEPT ![w] = WrappedDetail("400", "Invalid signature")]
    /\ UNCHANGED <<keyId, keySecret, orders, last, raceReq, atStart>>

\* verify_payment: the update_one and the return that follows it
VerifyUpdate(w) ==
    \E dbOk \in BOOLEAN :
      /\ pc[w] = "update"
      /\ pc' = [pc EXCEPT ![w] = "done"]
      /\ IF dbOk
         THEN /\ orders' \in UpdateOne(orders, ByIntent(orders, raceReq.intent), "paid")
              /\ resp' = [resp EXCEPT ![w] = "success"]
         ELSE /\ orders' = orders
              /\ resp' = [resp EXCEPT ![w] = "storage"]
      /\ UNCHANGED <<keyId, keySecret, last, raceReq, atStart>>

RaceStep == \E w \in Workers : VerifyCheck(w) \/ VerifyUpdate(w)

Next == CreateOrder \/ VerifyPayment \/ UpdateOrderStatus \/ StartRace \/ RaceStep

Spec == Init /\ [][Next]_vars

\* =================================================================== claims
\* The digest the specification names: lowercase hex HMAC-SHA256 of
\* intentId + "|" + paymentId under the secret.
ExpectedSignature(secret, intent, payment) ==
    HmacSha256Hex(secret, intent \o "|" \o payment)

\* The last serial call was a VerifyPayment whose signature is / is not the
\* expected digest, with a secret configured.
LastVerifyValid ==
    /\ last.op = "verify"
    /\ keySecret /= ""
    /\ last.req.signature = ExpectedSignature(keySecret, last.req.intent, last.req.payment)

LastVerifyMismatch ==
    /\ last.op = "verify"
    /\ keySecret /= ""
    /\ last.req.signature /= ExpectedSignature(keySecret, last.req.intent, last.req.payment)

\* round(x) of Python on the exact product total_amount * 100: nearest
\* integer, a tie going to the even one
RoundMinor(total_amount) ==
    LET n == total_amount * 100
        q == n \div Scale
        r == n % Scale
    IN  IF 2 * r > Scale THEN q + 1
        ELSE IF 2 * r < Scale THEN q
        ELSE IF q % 2 = 0 THEN q ELSE q + 1

\* C1: with a secret configured and the supplied signature equal to the
\* expected digest, VerifyPayment (storage permitting) returns success and an
\* order whose razorpay_order_id is the intent id has status paid; the same
\* holds of the call repeated with the same inputs.
C1_ValidVerifyMarksPaid ==
    (LastVerifyValid /\ last.detail /= "storage") =>
        /\ last.code = 200
        /\ last.result = "success"
        /\ LET m == ByIntent(orders, last.req.intent)
           IN  /\ m /= {} => \E i \in m : orders[i].status = "paid"
               /\ \A i \in m : Cardinality(m) = 1 => orders[i].status = "paid"

C1_Witness ==
    /\ LastVerifyValid
    /\ last.again
    /\ last.result = "success"
    /\ \E i \in 1..Len(orders) :
         /\ ByIntent(orders, last.req.intent) = {i}
         /\ orders[i].status = "paid"

\* C2: with a secret configured and a supplied signature that differs from
\* the expected digest, VerifyPayment answers with the client error 400
\* (Invalid signature) and modifies no order.
C2_MismatchIsClientError ==
    [][LastVerifyMismatch' =>
         /\ last'.code = 400
         /\ orders' = orders]_vars

\* C3: when the gateway answers with a status code >= 300, CreateOrder
\* persists nothing and fails with the gateway error 502 carrying the
\* gateway's body; every CreateOrder call adds exactly one document when it
\* succeeds and none when it fails.
C3_GatewayFailureReported ==
    [][(last'.op = "create" /\ last' /= last) =>
         /\ last'.gw_status >= 300 =>
               /\ orders' = orders
               /\ last'.code = 502
               /\ last'.detail = "gw_error"
         /\ Len(orders') = Len(orders) + (IF last'.code = 200 THEN 1 ELSE 0)]_vars

\* C4: a document CreateOrder persists has status pending when it is
\* persisted; a status becomes paid only through a VerifyPayment with the
\* expected signature or an UpdateOrderStatus.
C4_PersistedPending ==
    [][/\ Len(orders') > Len(orders) =>
            orders'[Len(orders')].status = "pending"
       /\ \A i \in 1..Len(orders) :
            (orders[i].status /= "paid" /\ orders'[i].status = "paid") =>
                \/ LastVerifyValid'
                \/ last'.op = "update"
                \/ last'.op = "race"]_vars

\* C5 as stated: with either credential absent, CreateOrder makes no gateway
\* call and returns not_configured, and VerifyPayment returns skipped.
C5_EitherAbsentSkipsBoth ==
    (keyId = "" \/ keySecret = "") =>
        /\ last.op = "create" =>
              /\ ~last.called
              /\ last.code = 200 => last.result = "not_configured"
        /\ last.op = "verify" => (last.code = 200 /\ last.result = "skipped")

\* C5 amended: with either credential absent CreateOrder makes no gateway
\* call and returns not_configured; VerifyPayment returns skipped, leaving
\* every order as it was, exactly when the key secret is absent (with only
\* the key identifier absent it compares the signature as usual).
C5_SecretAbsentSkipsVerify ==
    [][/\ (last'.op = "create" /\ (keyId = "" \/ keySecret = "")) =>
            /\ ~last'.called
            /\ last'.code = 200 => last'.result = "not_configured"
       /\ (last'.op = "verify" /\ keySecret = "") =>
            /\ last'.code = 200
            /\ last'.result = "skipped"
            /\ orders' = orders
       /\ (last'.op = "verify" /\ keySecret /= "") =>
            last'.result /= "skipped"]_vars

C5_Witness ==
    /\ keySecret = ""
    /\ keyId /= ""
    /\ last.op = "verify"
    /\ last.result = "skipped"
    /\ \E i \in 1..Len(orders) :
         /\ orders[i].razorpay_order_id = last.req.intent
         /\ orders[i].status = "pending"

\* C6: with the gateway not configured a CreateOrder call makes no gateway
\* call and either persists exactly one document and returns its non-empty
\* identifier, or fails on a storage error and persists nothing.
C6_NotConfiguredCreate ==
    [][(last'.op = "create" /\ last' /= last /\ (keyId = "" \/ keySecret = "")) =>
         /\ ~last'.called
         /\ \/ /\ last'.code = 200
               /\ Len(orders') = Len(orders) + 1
               /\ SubSeq(orders', 1, Len(orders)) = orders
               /\ last'.order_id = Len(orders')
               /\ last'.order_id /= 0
            \/ /\ last'.code = 500
               /\ last'.detail = "storage"
               /\ orders' = orders]_vars

C6_Witness ==
    /\ keyId = "" \/ keySecret = ""
    /\ last.op = "create"
    /\ last.code = 200
    /\ ~last.called
    /\ Len(orders) = 2
    /\ last.order_id = 2

\* C7: the amount a successful CreateOrder sends to the gateway and returns
\* is round(total_amount * 100).
C7_AmountIsRounded ==
    (last.op = "create" /\ last.called /\ last.code = 200) =>
        last.amount = RoundMinor(last.total)

\* C8: razorpay_order_id is non-null only on an order created with the
\* gateway configured, where it is the id the gateway returned, and no later
\* operation changes it.
C8_IntentIdSetOnce ==
    [][/\ \A i \in 1..Len(orders) :
            /\ Len(orders') >= Len(orders)
            /\ orders'[i].razorpay_order_id = orders[i].razorpay_order_id
       /\ Len(orders') > Len(orders) =>
            LET d == orders'[Len(orders')]
            IN  d.razorpay_order_id /= Null =>
                  /\ keyId /= "" /\ keySecret /= ""
                  /\ last'.called
                  /\ d.razorpay_order_id = last'.gw_id]_vars

\* C9: a VerifyPayment, serial or one of a concurrent pair, never changes the
\* status of an order that is processing, shipped, delivered or cancelled.
C9_VerifyOnlyFromPending ==
    [][(last'.op = "verify" \/ last'.op = "race") =>
         \A i \in 1..Len(orders) :
            orders[i].status \in {"processing", "shipped", "delivered", "cancelled"} =>
                orders'[i].status = orders[i].status]_vars

\* C10: when two concurrent VerifyPayment calls with the same valid body have
\* both returned, each of them (storage permitting) returned success, an
\* order whose razorpay_order_id is the intent id is paid once one succeeded,
\* and every other order is as it was when they arrived.
C10_ConcurrentVerifyHarmless ==
    (/\ \A w \in Workers : pc[w] = "done"
     /\ keySecret /= ""
     /\ raceReq.signature = ExpectedSignature(keySecret, raceReq.intent, raceReq.payment)) =>
        LET m == ByIntent(atStart, raceReq.intent)
        IN  /\ \A w \in Workers : resp[w] /= "storage" => resp[w] = "success"
            /\ Len(orders) = Len(atStart)
            /\ \A i \in 1..Len(orders) :
                 /\ orders[i].razorpay_order_id = atStart[i].razorpay_order_id
                 /\ i \notin m => orders[i] = atStart[i]
            /\ (\E w \in Workers : resp[w] = "success") =>
                 /\ m /= {} => \E i \in m : orders[i].status = "paid"
                 /\ \A i \in m : Cardinality(m) = 1 => orders[i].status = "paid"

C10_Witness ==
    /\ \A w \in Workers : pc[w] = "done" /\ resp[w] = "success"
    /\ keySecret /= ""
    /\ \E i, j \in 1..Len(orders) :
         /\ ByIntent(atStart, raceReq.intent) = {i}
         /\ atStart[i].status = "pending"
         /\ orders[i].status = "paid"
         /\ j /= i
         /\ orders[j].razorpay_order_id \in IntentIds
         /\ orders[j].status = "pending"
====
